---------------------------- MODULE Spec2Model ----------------------------
(***************************************************************************)
(* A model of when-ts: the StateMachine execution engine (step, run, exit, *)
(* reset) and the HistoryManager behind it (records, tick, limit, rewind,  *)
(* clear, _mutateTick, _nextTick, _beginTick, _collectInputs), both from   *)
(* src/src/stateMachine.ts.                                                *)
(*                                                                         *)
(* A state object is a function from Keys to values; the value Undef       *)
(* stands for "the object has no such property".  Objects are taken by     *)
(* value: the partial states handed to the engine by actions and callers   *)
(* are fresh objects, never aliases of the engine's own (Readonly) ones.   *)
(* Numbers handed to rewind and limit are non-negative integers or         *)
(* Infinity (limit also takes 0, which the setter clamps).                 *)
(***************************************************************************)
EXTENDS Integers, Sequences, FiniteSets, TLC

(***************************************************************************)
(* Bounds of the model.                                                    *)
(***************************************************************************)
MaxSteps == 4
MaxCalls == 2

(***************************************************************************)
(* JavaScript values.                                                      *)
(***************************************************************************)
Infinity == 1000
Undef == -1
NaN == -2

Keys == {"counter", "inp"}
Empty == [k \in Keys |-> Undef]
None == <<>>
Some(x) == <<x>>

Min(a, b) == IF a < b THEN a ELSE b
Max(a, b) == IF a > b THEN a ELSE b

VARIABLES
    program,       \* StateMachine._program, in registration order
    inputKeys,     \* HistoryManager._inputKeys
    inputSrc,      \* the machine property an input binding reads
    initialState,  \* HistoryManager._initialState
    records,       \* HistoryManager._records
    recM1,         \* the property "-1" of the _records array (None: absent)
    tick,          \* HistoryManager._tick
    nextState,     \* HistoryManager._nextState
    maxHistory,    \* HistoryManager._maxHistory
    exitState,     \* StateMachine._exitState (None: undefined)
    pc,            \* where the running step() call stands ("idle": none runs)
    fired,         \* step(): let fired
    currentTick,   \* step(): const currentTick
    currentState,  \* step(): const currentState
    actions,       \* step(): let actions, the sorted entries
    idx,           \* step(): the position of the for loop in actions
    ret,           \* the value the last step() call returned
    evalLog,       \* history: entries whose condition this step() evaluated
    firedLog,      \* history: entries whose action this step() ran
    outLog,        \* history: what those actions returned, in the same order
    collected,     \* history: what _collectInputs returned to the last _beginTick
    steps,         \* history: step() calls made so far
    calls,         \* history: other calls made so far, input changes included
    pristine,      \* history: only step() was called since construction
    epoch,         \* history: "ctor", "reset" or "none", see CountCommit
    commits,       \* history: _nextTick calls in this epoch
    limitRaised,   \* history: the limit was raised in this epoch
    rpc,           \* where the running run() call stands ("none": none runs)
    forever,       \* run(): the parameter forever
    runRet         \* the value the last run() call returned (None: none yet)

vars == <<program, inputKeys, inputSrc, initialState, records, recM1, tick,
          nextState, maxHistory, exitState, pc, fired, currentTick,
          currentState, actions, idx, ret, evalLog, firedLog, outLog,
          collected,
          steps, calls, pristine, epoch, commits, limitRaised,
          rpc, forever, runRet>>

(***************************************************************************)
(* Object.assign(Object.create(null), a, p): the properties of p over a.   *)
(***************************************************************************)
Assign(a, p) == [k \in Keys |-> IF p[k] # Undef THEN p[k] ELSE a[k]]

(***************************************************************************)
(* The input binding of the model: key "inp", transform v => v + 1.        *)
(***************************************************************************)
Transform(v) == v + 1

CollectInputs(keys, src) ==
    [k \in Keys |-> IF k \in keys THEN Transform(src) ELSE Undef]

(***************************************************************************)
(* The machine and its history as one value, so that the methods below can *)
(* call one another; M is the machine as the variables hold it.            *)
(***************************************************************************)
M == [records |-> records, recM1 |-> recM1, tick |-> tick,
      nextState |-> nextState, maxHistory |-> maxHistory,
      exitState |-> exitState, collected |-> collected,
      epoch |-> epoch, commits |-> commits, limitRaised |-> limitRaised]

Install(h) ==
    /\ records' = h.records
    /\ recM1' = h.recM1
    /\ tick' = h.tick
    /\ nextState' = h.nextState
    /\ maxHistory' = h.maxHistory
    /\ exitState' = h.exitState
    /\ collected' = h.collected
    /\ epoch' = h.epoch
    /\ commits' = h.commits
    /\ limitRaised' = h.limitRaised

(***************************************************************************)
(* Array.prototype.splice(start, deleteCount) with no items to insert, for *)
(* start >= 0: start is clamped to the length, deleteCount to what is left.*)
(***************************************************************************)
Splice(s, start, deleteCount) ==
    LET st == Min(start, Len(s))
        dc == Min(Max(deleteCount, 0), Len(s) - st)
    IN SubSeq(s, 1, st) \o SubSeq(s, st + dc + 1, Len(s))

(***************************************************************************)
(* this.records[this.records.length - 1]: the last record; on an empty     *)
(* array that reads the property "-1", which rewind's mutate may have set. *)
(***************************************************************************)
LastRecord(h) ==
    IF Len(h.records) > 0 THEN Some(h.records[Len(h.records)]) ELSE h.recM1

\* mutant: the pending state instead of the last record
CurrentStatePending(h) == h.nextState

CurrentState(h) ==
    IF LastRecord(h) # None THEN LastRecord(h)[1] ELSE h.nextState

BeginTick(h) ==
    LET inputs == CollectInputs(inputKeys, inputSrc)
        base == IF LastRecord(h) # None THEN LastRecord(h)[1] ELSE Empty
    IN [h EXCEPT !.nextState = Assign(base, inputs), !.collected = inputs]

(***************************************************************************)
(* History: commits counts the _nextTick calls since construction          *)
(* (epoch "ctor") or since the last full reset (epoch "reset"); a rewind   *)
(* that is no full reset ends the count (epoch "none").                    *)
(***************************************************************************)
CountCommit(h) ==
    [h EXCEPT !.commits = IF h.epoch = "none" THEN 0 ELSE @ + 1]

\* mutant: the tick counter is not advanced
NextTickNoCount(h) ==
    LET pushed == Append(h.records, h.nextState)
        kept == IF Len(pushed) > h.maxHistory
                THEN Splice(pushed, 0, Len(pushed) - h.maxHistory)
                ELSE pushed
    IN CountCommit(BeginTick([h EXCEPT !.records = kept]))

\* mutant: the records are not trimmed to the limit
NextTickNoTrim(h) ==
    LET b == BeginTick([h EXCEPT !.records = Append(h.records, h.nextState)])
    IN CountCommit([b EXCEPT !.tick = @ + 1])

NextTick(h) ==
    LET pushed == Append(h.records, h.nextState)
        kept == IF Len(pushed) > h.maxHistory
                THEN Splice(pushed, 0, Len(pushed) - h.maxHistory)
                ELSE pushed
        b == BeginTick([h EXCEPT !.records = kept])
    IN CountCommit([b EXCEPT !.tick = @ + 1])

\* mutant: the input keys are not stripped
MutateTickNoStrip(h, p) == [h EXCEPT !.nextState = Assign(@, p)]

MutateTick(h, p) ==
    LET stripped == [k \in Keys |-> IF k \in inputKeys THEN Undef ELSE p[k]]
    IN [h EXCEPT !.nextState = Assign(@, stripped)]

(***************************************************************************)
(* this._records[this._records.length - 1] = s                             *)
(***************************************************************************)
WriteLast(h, s) ==
    IF Len(h.records) > 0
    THEN [h EXCEPT !.records[Len(h.records)] = s]
    ELSE [h EXCEPT !.recM1 = Some(s)]

\* mutant: a full reset leaves the tick counter alone
RewindKeepTick(h, n, mutate) ==
    LET r == IF n <= h.maxHistory /\ n # Infinity
             THEN [h EXCEPT !.records = Splice(@, n, Len(@) - n),
                            !.tick = @ - n,
                            !.epoch = "none", !.commits = 0,
                            !.limitRaised = FALSE]
             ELSE [h EXCEPT !.records = <<initialState>>,
                            !.epoch = "reset", !.commits = 0,
                            !.limitRaised = FALSE]
        m == IF mutate # None
             THEN WriteLast(r, Assign(CurrentState(r), mutate[1]))
             ELSE r
    IN BeginTick(m)

Rewind(h, n, mutate) ==
    LET r == IF n <= h.maxHistory /\ n # Infinity
             THEN [h EXCEPT !.records = Splice(@, n, Len(@) - n),
                            !.tick = @ - n,
                            !.epoch = "none", !.commits = 0,
                            !.limitRaised = FALSE]
             ELSE [h EXCEPT !.records = <<initialState>>,
                            !.tick = 0,
                            !.epoch = "reset", !.commits = 0,
                            !.limitRaised = FALSE]
        m == IF mutate # None
             THEN WriteLast(r, Assign(CurrentState(r), mutate[1]))
             ELSE r
    IN BeginTick(m)

Clear(h) == Rewind(h, Infinity, None)

\* mutant: a limit below 1 is not clamped
SetLimitNoClamp(h, limit) ==
    [h EXCEPT !.records = IF limit < h.maxHistory
                          THEN Splice(@, 0, Len(@) - limit)
                          ELSE @,
              !.maxHistory = limit,
              !.limitRaised = @ \/ (h.epoch # "none" /\ limit > h.maxHistory)]

SetLimit(h, limit) ==
    LET l == IF limit < 1 THEN 1 ELSE limit
    IN [h EXCEPT !.records = IF l < h.maxHistory
                             THEN Splice(@, 0, Len(@) - l)
                             ELSE @,
                 !.maxHistory = l,
                 !.limitRaised = @ \/ (h.epoch # "none" /\ l > h.maxHistory)]

\* mutant: the exit state is taken from the pending state
ExitPending(h, arg) ==
    [h EXCEPT !.exitState =
        Some(IF arg # None THEN Assign(h.nextState, arg[1]) ELSE h.nextState)]

\* mutant: an exit state already set is kept
ExitOnce(h, arg) ==
    IF h.exitState # None
    THEN h
    ELSE [h EXCEPT !.exitState =
            Some(IF arg # None
                 THEN Assign(CurrentState(h), arg[1])
                 ELSE CurrentState(h))]

Exit(h, arg) ==
    [h EXCEPT !.exitState =
        Some(IF arg # None
             THEN Assign(CurrentState(h), arg[1])
             ELSE CurrentState(h))]

Reset(h, arg) ==
    Rewind([h EXCEPT !.exitState = None], Infinity,
           Some(IF arg # None THEN arg[1] ELSE initialState))

(***************************************************************************)
(* Program entries.  cond names the condition, act the action, priority    *)
(* the number registered (Undef: none registered); pfn says the priority   *)
(* is the function state => state.counter instead; n and arg are what the  *)
(* action passes to the call it makes (arg None: no argument).             *)
(***************************************************************************)
Entry(c, a, p) ==
    [cond |-> c, act |-> a, priority |-> p, pfn |-> FALSE, n |-> 0, arg |-> None]

CounterIs(v) == [counter |-> v, inp |-> Undef]
InpIs(v) == [counter |-> Undef, inp |-> v]
Both(c, v) == [counter |-> c, inp |-> v]

CondHolds(c, s) ==
    CASE c = "always" -> TRUE
      [] c = "never" -> FALSE
      [] c = "ge3" -> s.counter >= 3
      [] c = "lt2" -> s.counter >= 0 /\ s.counter < 2

\* state.counter + 1: undefined + 1 and NaN + 1 are NaN
Inc(v) == IF v = Undef \/ v = NaN THEN NaN ELSE v + 1

\* (typeof priority === 'function' ? priority(state, this) : priority) || 0
ResolvePriority(e, s) ==
    LET p == IF e.pfn THEN s.counter ELSE e.priority
    IN IF p = Undef \/ p = NaN \/ p = 0 THEN 0 ELSE p

(***************************************************************************)
(* Array.prototype.sort with the comparator p1 - p2, as a stable sort:     *)
(* each entry goes before the first one the comparator puts after it.      *)
(***************************************************************************)
\* mutant: an entry goes before the entries of equal priority
RECURSIVE InsertSortedTiesFirst(_, _)
InsertSortedTiesFirst(e, s) ==
    IF s = <<>> THEN <<e>>
    ELSE IF Head(s).priority - e.priority >= 0 THEN <<e>> \o s
    ELSE <<Head(s)>> \o InsertSortedTiesFirst(e, Tail(s))

RECURSIVE InsertSorted(_, _)
InsertSorted(e, s) ==
    IF s = <<>> THEN <<e>>
    ELSE IF Head(s).priority - e.priority > 0 THEN <<e>> \o s
    ELSE <<Head(s)>> \o InsertSorted(e, Tail(s))

RECURSIVE SortByPriority(_)
SortByPriority(s) ==
    IF s = <<>> THEN <<>>
    ELSE InsertSorted(s[Len(s)], SortByPriority(SubSeq(s, 1, Len(s) - 1)))

\* Array.from(this._program.entries()).map(...).sort(...)
SortedActions(prog, s) ==
    SortByPriority([i \in 1..Len(prog) |->
                      [entry |-> i, priority |-> ResolvePriority(prog[i], s)]])

(***************************************************************************)
(* action.call(this, state, this): the machine after the calls the action  *)
(* makes, and the partial state it returns (None: it returns nothing).     *)
(***************************************************************************)
RunAction(e, s, h) ==
    CASE e.act = "inc" -> [h |-> h, out |-> Some(CounterIs(Inc(s.counter)))]
      [] e.act = "write" -> [h |-> h, out |-> e.arg]
      [] e.act = "noop" -> [h |-> h, out |-> None]
      [] e.act = "exit" -> [h |-> Exit(h, e.arg), out |-> None]
      [] e.act = "rewind" -> [h |-> Rewind(h, e.n, e.arg), out |-> None]
      [] e.act = "clear" -> [h |-> Clear(h), out |-> None]
      [] e.act = "reset" -> [h |-> Reset(h, e.arg), out |-> None]
      [] e.act = "limit" -> [h |-> SetLimit(h, e.n), out |-> None]

(***************************************************************************)
(* The programs of the model.                                              *)
(***************************************************************************)
\* scenario A: one entry, always true, counter + 1, priority 0
ScenarioA == <<Entry("always", "inc", 0)>>

\* scenario B: scenario A and {counter >= 3, exit(), priority 1}
ScenarioB == <<Entry("always", "inc", 0), Entry("ge3", "exit", 1)>>

\* priorities 5, 1, 3, all conditions true, all writing counter
Prio513 ==
    <<[Entry("always", "write", 5) EXCEPT !.arg = Some(CounterIs(1))],
      [Entry("always", "write", 1) EXCEPT !.arg = Some(CounterIs(2))],
      [Entry("always", "write", 3) EXCEPT !.arg = Some(Both(3, 0))]>>

\* equal priorities, a priority function, no priority registered
Ties ==
    <<[Entry("always", "write", 1) EXCEPT !.arg = Some(CounterIs(1))],
      [Entry("always", "inc", 0) EXCEPT !.pfn = TRUE],
      [Entry("always", "write", 1) EXCEPT !.arg = Some(Both(2, 0))],
      Entry("always", "noop", Undef)>>

\* scenario C: rewind(1) with two lower-priority entries behind it
ScenarioC ==
    <<[Entry("always", "rewind", 0) EXCEPT !.n = 1],
      Entry("always", "inc", 1),
      Entry("always", "inc", 2)>>

\* clear() and reset() with entries behind them
ClearFirst ==
    <<Entry("ge3", "reset", 0),
      Entry("always", "clear", 1),
      Entry("always", "inc", 2)>>

\* a rewind with a mutation as the last entry
RewindLast ==
    <<Entry("always", "inc", 0),
      [Entry("always", "rewind", 1) EXCEPT !.n = 1, !.arg = Some(Both(1, 0))]>>

\* history calls that leave tick alone, then a write
NoAbort ==
    <<[Entry("always", "rewind", 0) EXCEPT !.n = 0],
      [Entry("always", "limit", 1) EXCEPT !.n = 1],
      Entry("always", "inc", 2)>>

\* no condition holds against the initial state
Inert == <<Entry("never", "inc", 0), Entry("ge3", "exit", 1)>>

\* exit(partial) with an entry behind it
ExitWith ==
    <<[Entry("always", "exit", 0) EXCEPT !.arg = Some(Both(2, 0))],
      Entry("always", "inc", 1)>>

\* counts to 2 and fires nothing from there on
Settles == <<Entry("lt2", "inc", 0)>>

Programs == {<<>>, ScenarioA, ScenarioB, Prio513, Ties, ScenarioC, ClearFirst,
             RewindLast, NoAbort, Inert, ExitWith, Settles}

(***************************************************************************)
(* What callers pass: rewind's n, the partial states, the limits, the      *)
(* values of the input source.                                             *)
(***************************************************************************)
RewindNs == {0, 1, 2, Infinity}
Args == {None, Some(Both(1, 0))}
Limits == {0, 2, Infinity}
SrcVals == {0, 1}
Supplied == CounterIs(0)
NoRet == -1

(***************************************************************************)
(* Init: the machine after its constructor and the HistoryManager's:       *)
(* _initialState = the supplied state and the inputs, _nextState a copy,   *)
(* then _nextTick().                                                       *)
(***************************************************************************)
Constructed(keys, src) ==
    LET init == Assign(Supplied, CollectInputs(keys, src))
    IN [records |-> <<>>, recM1 |-> None, tick |-> 0, nextState |-> init,
        maxHistory |-> Infinity, exitState |-> None, collected |-> Empty,
        epoch |-> "ctor", commits |-> 0, limitRaised |-> FALSE]

Init ==
    /\ program \in Programs
    /\ inputKeys \in {{}, {"inp"}}
    /\ inputSrc \in SrcVals
    /\ initialState = Assign(Supplied, CollectInputs(inputKeys, inputSrc))
    /\ LET h == NextTick(Constructed(inputKeys, inputSrc))
       IN /\ records = h.records
          /\ recM1 = h.recM1
          /\ tick = h.tick
          /\ nextState = h.nextState
          /\ maxHistory = h.maxHistory
          /\ exitState = h.exitState
          /\ collected = h.collected
          /\ epoch = h.epoch
          /\ commits = h.commits
          /\ limitRaised = h.limitRaised
    /\ pc = "idle"
    /\ fired = 0
    /\ currentTick = 0
    /\ currentState = Empty
    /\ actions = <<>>
    /\ idx = 0
    /\ ret = NoRet
    /\ evalLog = <<>>
    /\ firedLog = <<>>
    /\ outLog = <<>>
    /\ steps = 0
    /\ calls = 0
    /\ pristine = TRUE
    /\ rpc = "none"
    /\ forever = FALSE
    /\ runRet = None

fixed == <<program, inputKeys, initialState>>
locals == <<fired, currentTick, currentState, actions, idx>>

(***************************************************************************)
(* step(), lines 76-101: the first commit when tick < 1, the tick and the  *)
(* state captured, the entries sorted by resolved priority.                *)
(***************************************************************************)
StepBegin ==
    /\ pc = "idle"
    /\ rpc = "none" \/ (rpc = "loop" /\ exitState = None)
    /\ steps < MaxSteps
    /\ steps' = steps + 1
    /\ LET h == IF tick < 1 THEN NextTick(M) ELSE M
       IN /\ Install(h)
          /\ currentTick' = h.tick
          /\ currentState' = CurrentState(h)
          /\ actions' = SortedActions(program, CurrentState(h))
    /\ fired' = 0
    /\ idx' = 1
    /\ pc' = "loop"
    /\ ret' = NoRet
    /\ evalLog' = <<>>
    /\ firedLog' = <<>>
    /\ outLog' = <<>>
    /\ runRet' = IF rpc = "none" THEN None ELSE runRet
    /\ UNCHANGED <<fixed, inputSrc, calls, pristine, rpc, forever>>

Returned(v) ==
    /\ pc' = "idle"
    /\ rpc' = IF rpc = "loop" THEN "check" ELSE rpc
    /\ UNCHANGED <<forever, runRet>>
    /\ ret' = v
    /\ fired' = 0
    /\ currentTick' = 0
    /\ currentState' = Empty
    /\ actions' = <<>>
    /\ idx' = 0

\* lines 103-107: the tick moved and no exit state is set
StepAbort ==
    /\ pc = "loop"
    /\ idx <= Len(actions)
    /\ tick # currentTick /\ exitState = None
    /\ Returned(Max(1, fired))
    /\ UNCHANGED <<fixed, inputSrc, records, recM1, tick, nextState, maxHistory,
                   exitState, collected, epoch, commits, limitRaised,
                   evalLog, firedLog, outLog, steps, calls, pristine>>

\* lines 108-110: an exit state is set
StepBreak ==
    /\ pc = "loop"
    /\ idx <= Len(actions)
    /\ ~(tick # currentTick /\ exitState = None)
    /\ exitState # None
    /\ pc' = "commit"
    /\ UNCHANGED <<fixed, inputSrc, records, recM1, tick, nextState, maxHistory,
                   exitState, collected, epoch, commits, limitRaised,
                   locals, ret, evalLog, firedLog, outLog, steps, calls,
                   pristine,
                   rpc, forever, runRet>>

\* lines 111-117: the condition, and the action when it holds
StepEval ==
    /\ pc = "loop"
    /\ idx <= Len(actions)
    /\ ~(tick # currentTick /\ exitState = None)
    /\ exitState = None
    /\ LET i == actions[idx].entry
           e == program[i]
       IN /\ evalLog' = Append(evalLog, i)
          /\ IF CondHolds(e.cond, CurrentState(M))
             THEN LET r == RunAction(e, CurrentState(M), M)
                      h == IF r.out # None THEN MutateTick(r.h, r.out[1]) ELSE r.h
                  IN /\ Install(h)
                     /\ fired' = fired + 1
                     /\ firedLog' = Append(firedLog, i)
                     /\ outLog' = Append(outLog, r.out)
             ELSE /\ Install(M)
                  /\ fired' = fired
                  /\ firedLog' = firedLog
                  /\ outLog' = outLog
    /\ idx' = idx + 1
    /\ UNCHANGED <<fixed, inputSrc, pc, currentTick, currentState, actions,
                   ret, steps, calls, pristine, rpc, forever, runRet>>

\* mutant: a tick that fired nothing sets no exit state
StepCommitNoExit ==
    /\ \/ pc = "loop" /\ idx > Len(actions)
       \/ pc = "commit"
    /\ Install(NextTick(M))
    /\ Returned(fired)
    /\ UNCHANGED <<fixed, inputSrc, evalLog, firedLog, outLog, steps, calls,
                   pristine>>

\* lines 119-123: the commit, and the exit state when nothing fired
StepCommit ==
    /\ \/ pc = "loop" /\ idx > Len(actions)
       \/ pc = "commit"
    /\ LET h == NextTick(M)
       IN Install(IF fired = 0
                  THEN [h EXCEPT !.exitState = Some(CurrentState(h))]
                  ELSE h)
    /\ Returned(fired)
    /\ UNCHANGED <<fixed, inputSrc, evalLog, firedLog, outLog, steps, calls,
                   pristine>>

(***************************************************************************)
(* The calls a caller makes between two step() calls.                      *)
(***************************************************************************)
Called(h) ==
    /\ pc = "idle"
    /\ rpc = "none"
    /\ calls < MaxCalls
    /\ calls' = calls + 1
    /\ pristine' = FALSE
    /\ Install(h)
    /\ ret' = NoRet
    /\ evalLog' = <<>>
    /\ firedLog' = <<>>
    /\ outLog' = <<>>
    /\ runRet' = None
    /\ UNCHANGED <<fixed, inputSrc, pc, locals, steps, rpc, forever>>

RewindCall(n, a) == Called(Rewind(M, n, a))
ResetCall(a) == Called(Reset(M, a))
LimitCall(l) == Called(SetLimit(M, l))
ExitCall(a) == Called(Exit(M, a))

CallRewind == \E n \in RewindNs, a \in Args : RewindCall(n, a)

CallClear == Called(Clear(M))

CallReset == \E a \in Args : ResetCall(a)

CallSetLimit == \E l \in Limits : LimitCall(l)

CallExit == \E a \in Args : ExitCall(a)

\* the program's owner changes the property an input binding reads
SetInput ==
    /\ pc = "idle"
    /\ rpc = "none"
    /\ calls < MaxCalls
    /\ calls' = calls + 1
    /\ \E v \in SrcVals : inputSrc' = v /\ v # inputSrc
    /\ UNCHANGED <<fixed, records, recM1, tick, nextState, maxHistory,
                   exitState, collected, epoch, commits, limitRaised, pc,
                   locals, ret, evalLog, firedLog, outLog, steps, pristine,
                   rpc, forever, runRet>>

(***************************************************************************)
(* run(forever), lines 132-140: step() is called while no exit state is    *)
(* set; after each call the loop is left when forever is false and the     *)
(* call returned 0; the exit state is returned, or the current state when  *)
(* none is set.                                                            *)
(***************************************************************************)
machine == <<records, recM1, tick, nextState, maxHistory, exitState,
             collected, epoch, commits, limitRaised>>

\* mutant: the current state is returned
RunResultCurrent == CurrentState(M)

\* return this._exitState || this._history.currentState
RunResult == IF exitState # None THEN exitState[1] ELSE CurrentState(M)

RunUnchanged ==
    UNCHANGED <<fixed, inputSrc, machine, pc, locals, ret, evalLog, firedLog,
                outLog,
                steps, calls, pristine>>

RunReturned ==
    /\ rpc' = "none"
    /\ forever' = FALSE
    /\ runRet' = Some(RunResult)
    /\ RunUnchanged

RunBegin ==
    /\ pc = "idle"
    /\ rpc = "none"
    /\ rpc' = "loop"
    /\ forever' \in BOOLEAN
    /\ runRet' = None
    /\ RunUnchanged

\* while (!this._exitState), when run() is entered: the exit state is set
RunWhileEnds ==
    /\ pc = "idle"
    /\ rpc = "loop"
    /\ exitState # None
    /\ RunReturned

\* after a step() call, under the flag f: if (!forever && !change) break,
\* and while (!this._exitState) when the loop is not left there
RunCheckWith(f) ==
    /\ pc = "idle"
    /\ rpc = "check"
    /\ IF ~f /\ ret = 0
       THEN RunReturned
       ELSE IF exitState # None
            THEN RunReturned
            ELSE /\ rpc' = "loop"
                 /\ UNCHANGED <<forever, runRet>>
                 /\ RunUnchanged

RunCheck == RunCheckWith(forever)

Next ==
    \/ StepBegin
    \/ StepAbort
    \/ StepBreak
    \/ StepEval
    \/ StepCommit
    \/ CallRewind
    \/ CallClear
    \/ CallReset
    \/ CallSetLimit
    \/ CallExit
    \/ SetInput
    \/ RunBegin
    \/ RunWhileEnds
    \/ RunCheck

Spec == Init /\ [][Next]_vars

(***************************************************************************)
(*                              The claims                                 *)
(***************************************************************************)
Last(s) == s[Len(s)]
PriorityAtStart(i) == ResolvePriority(program[i], currentState)
Idle == pc = "idle"

(***************************************************************************)
(* C1: within one step() the entries are evaluated in ascending order of   *)
(* the priority resolved from the state captured when the tick started,    *)
(* entries of equal priority in registration order; a loop that runs to    *)
(* its end has evaluated every entry.                                      *)
(***************************************************************************)
C1_PriorityOrder ==
    ~Idle =>
        /\ \A a, b \in 1..Len(evalLog) :
              a < b =>
                 \/ PriorityAtStart(evalLog[a]) < PriorityAtStart(evalLog[b])
                 \/ /\ PriorityAtStart(evalLog[a]) = PriorityAtStart(evalLog[b])
                    /\ evalLog[a] < evalLog[b]
        /\ (pc = "loop" /\ idx > Len(actions)) => Len(evalLog) = Len(program)

\* priorities [5, 1, 3] were evaluated in the order 1, 3, 5
C1_Witness ==
    /\ program = Prio513
    /\ pc = "loop"
    /\ evalLog = <<2, 3, 1>>
    /\ firedLog = <<2, 3, 1>>

(***************************************************************************)
(* C2: when no condition holds against the initial state, the first step() *)
(* of a fresh machine returns 0 and sets the exit state to the initial     *)
(* state (the supplied state merged with the inputs read at construction). *)
(***************************************************************************)
NoConditionHolds ==
    \A i \in 1..Len(program) : ~CondHolds(program[i].cond, initialState)

C2_InertFirstStep ==
    (pristine /\ steps = 1 /\ Idle /\ NoConditionHolds) =>
        /\ ret = 0
        /\ exitState = Some(initialState)

\* ... also after the input source changed between construction and step()
C2_Witness ==
    /\ program = Inert
    /\ inputKeys = {"inp"}
    /\ pristine /\ steps = 1 /\ Idle
    /\ ret = 0
    /\ exitState = Some(initialState)
    /\ initialState.inp # Transform(inputSrc)

(***************************************************************************)
(* C3: scenario A as the claim states it: every step() returns 1, and      *)
(* after k calls counter = k and tick = k.                                 *)
(***************************************************************************)
FreshScenario(prog) ==
    program = prog /\ inputKeys = {} /\ pristine /\ Idle

C3_Original ==
    (FreshScenario(ScenarioA) /\ steps >= 1) =>
        /\ ret = 1
        /\ CurrentState(M).counter = steps
        /\ tick = steps

(***************************************************************************)
(* C3, amended: every step() returns 1, and after k calls counter = k and  *)
(* tick = k + 1, the constructor having committed the initial state as     *)
(* tick 1.                                                                 *)
(***************************************************************************)
C3_Amended ==
    FreshScenario(ScenarioA) =>
        /\ steps >= 1 => ret = 1
        /\ CurrentState(M).counter = steps
        /\ tick = steps + 1

C3_Witness ==
    /\ FreshScenario(ScenarioA)
    /\ steps = 3
    /\ ret = 1
    /\ CurrentState(M).counter = 3
    /\ tick = 4

(***************************************************************************)
(* C4: scenario B as the claim states it: the 4th step() fires exactly one *)
(* action, the exit, returns 1, and the exit state has counter = 3.        *)
(***************************************************************************)
C4_Original ==
    (FreshScenario(ScenarioB) /\ steps = 4) =>
        /\ Len(firedLog) = 1
        /\ program[firedLog[1]].act = "exit"
        /\ ret = 1
        /\ exitState # None
        /\ exitState[1].counter = 3

(***************************************************************************)
(* C4, amended: the 4th step() fires both entries, the increment and then  *)
(* the exit, and returns 2; the exit state has counter = 3, and the tick   *)
(* is committed with counter = 4.  No earlier step() sets an exit state.   *)
(***************************************************************************)
C4_Amended ==
    FreshScenario(ScenarioB) =>
        /\ steps < 4 => exitState = None
        /\ steps = 4 =>
              /\ firedLog = <<1, 2>>
              /\ ret = 2
              /\ exitState # None
              /\ exitState[1].counter = 3
              /\ CurrentState(M).counter = 4

C4_Witness ==
    /\ FreshScenario(ScenarioB)
    /\ steps = 4
    /\ firedLog = <<1, 2>>
    /\ ret = 2
    /\ exitState = Some(CounterIs(3))

(***************************************************************************)
(* C5: when an action fired by step() rewinds the history (rewind(n) with  *)
(* n >= 1, clear() or reset()) and no exit state is set, no entry ordered  *)
(* after it is evaluated in that step(), and step() returns                *)
(* max(1, actions fired so far).                                           *)
(***************************************************************************)
Rewinds(e) ==
    \/ e.act \in {"clear", "reset"}
    \/ e.act = "rewind" /\ e.n >= 1

Fired(i) == \E k \in 1..Len(firedLog) : firedLog[k] = i

C5_Original ==
    \A j \in 1..Len(evalLog) :
        (Rewinds(program[evalLog[j]]) /\ Fired(evalLog[j]) /\ exitState = None) =>
            /\ j = Len(evalLog)
            /\ Idle => ret = Max(1, Len(firedLog))

(***************************************************************************)
(* C6: rewind(n), n finite and at most the number of retained records,     *)
(* removes the n most recent records and lowers tick by n (stated for      *)
(* 1 <= n < records.length, where records are removed and records stay).   *)
(***************************************************************************)
C6_Original ==
    [][\A n \in RewindNs, a \in Args :
          (n # Infinity /\ 1 <= n /\ n < Len(records) /\ RewindCall(n, a)) =>
              /\ Len(records') = Len(records) - n
              /\ tick' = tick - n]_vars

(***************************************************************************)
(* C7: clear(), rewind(Infinity, mutate?) and reset(newInitial?) leave one *)
(* record, the initial state of the construction overlaid with the fields  *)
(* supplied, and tick = 0; reset() also leaves the exit state unset.  The  *)
(* same holds of the full resets that actions make during a step().       *)
(***************************************************************************)
Overlaid(a) == IF a # None THEN Assign(initialState, a[1]) ELSE initialState

JustReset == epoch = "reset" /\ commits = 0

C7_FullReset ==
    /\ [](JustReset =>
            /\ tick = 0
            /\ Len(records) = 1
            /\ \E a \in Args : records[1] = Overlaid(a))
    /\ [][/\ \A a \in Args :
               RewindCall(Infinity, a) => records' = <<Overlaid(a)>> /\ tick' = 0
          /\ CallClear => records' = <<initialState>> /\ tick' = 0
          /\ \A a \in Args :
               ResetCall(a) =>
                  records' = <<Overlaid(a)>> /\ tick' = 0 /\ exitState' = None
         ]_vars

\* a full reset with a mutation, after three committed steps and an exit state
C7_Witness ==
    /\ JustReset
    /\ steps = 3
    /\ records = <<Assign(initialState, Both(1, 0))>>
    /\ initialState.counter = 0
    /\ tick = 0
    /\ exitState = None

(***************************************************************************)
(* C8: in every record that step() commits, each input-bound key holds the *)
(* transformed input collected when the pending state of that tick was     *)
(* begun, whatever the fired actions returned.                             *)
(***************************************************************************)
CommitsPending ==
    \A k \in inputKeys : Last(records')[k] = collected[k]

C8_InputProtection ==
    [][/\ StepCommit => CommitsPending
       /\ (StepBegin /\ tick < 1) => CommitsPending
      ]_vars

\* a committed tick whose actions returned inp = 0, the input source having
\* moved after the pending state was begun
C8_Witness ==
    /\ program = Prio513
    /\ inputKeys = {"inp"}
    /\ Idle /\ ret = 3
    /\ Last(records).counter = 1
    /\ Last(records).inp = Transform(0)
    /\ collected.inp = Transform(1)

(***************************************************************************)
(* C9: the claim as stated: after N commits in a row with no rewind in     *)
(* between, counted from construction or from the last full reset,         *)
(* tick = N and records.length = min(N + 1, limit); from construction N    *)
(* may count the constructor's own commit or leave it out.  Stated of the  *)
(* states a step() call has returned to.                                   *)
(***************************************************************************)
C9_Original ==
    (epoch # "none" /\ steps >= 1 /\ Idle) =>
        \E N \in {commits, commits - 1} :
            /\ epoch = "reset" => N = commits
            /\ tick = N
            /\ Len(records) = Min(N + 1, maxHistory)

(***************************************************************************)
(* C9, amended: after N commits in a row with no rewind and no raising of  *)
(* the limit in between, tick = N; records.length = min(N + 1, limit) when *)
(* counted from the last full reset, and min(N, limit) when counted from   *)
(* construction, whose own commit of the initial state is the first.       *)
(***************************************************************************)
C9_Amended ==
    ~limitRaised =>
        /\ epoch = "reset" =>
              /\ tick = commits
              /\ Len(records) = Min(commits + 1, maxHistory)
        /\ epoch = "ctor" =>
              /\ tick = commits
              /\ Len(records) = Min(commits, maxHistory)

\* three commits after a full reset under limit 2
C9_Witness ==
    /\ epoch = "reset"
    /\ ~limitRaised
    /\ commits = 3
    /\ tick = 3
    /\ maxHistory = 2
    /\ Len(records) = 2

(***************************************************************************)
(* C10: limit >= 1 and records.length <= limit in every state; a commit    *)
(* keeps the record it pushes and drops the oldest ones, and an assignment *)
(* to limit drops the oldest records and keeps the most recent one.        *)
(***************************************************************************)
IsSuffix(s, t) ==
    /\ Len(s) <= Len(t)
    /\ s = SubSeq(t, Len(t) - Len(s) + 1, Len(t))

TrimmedTo(l) ==
    /\ IsSuffix(records', records)
    /\ Len(records') = Min(Len(records), l)

LimitAction ==
    /\ pc = "loop"
    /\ idx <= Len(actions)
    /\ program[actions[idx].entry].act = "limit"
    /\ StepEval
    /\ fired' = fired + 1

C10_BoundedRetention ==
    /\ [](maxHistory >= 1 /\ Len(records) <= maxHistory)
    /\ [][/\ (StepCommit \/ (StepBegin /\ tick < 1)) =>
                /\ IsSuffix(records', Append(records, nextState))
                /\ Last(records') = nextState
                /\ Len(records') = Min(Len(records) + 1, maxHistory)
          /\ \A l \in Limits : LimitCall(l) => TrimmedTo(maxHistory')
          /\ LimitAction => TrimmedTo(maxHistory')
         ]_vars

\* limit 2 and four commits: the records with counter 2 and 3 are the ones kept
C10_Witness ==
    /\ program = ScenarioA
    /\ Idle
    /\ maxHistory = 2
    /\ tick = 4
    /\ Len(records) = 2
    /\ records[1].counter = 2
    /\ records[2].counter = 3

(***************************************************************************)
(* C11: rewind(n, mutate?) with n above the number of retained records     *)
(* (finite n at most the limit included) is a full reset: it leaves one    *)
(* record, the initial state (overlaid with mutate when given), and        *)
(* tick = 0.                                                               *)
(***************************************************************************)
C11_Original ==
    [][\A n \in RewindNs, a \in Args :
          (n > Len(records) /\ RewindCall(n, a)) =>
              /\ records' = <<Overlaid(a)>>
              /\ tick' = 0]_vars

(***************************************************************************)
(* C12: the flag of run() has no effect.  The flag is read in one place,   *)
(* the test made after each step() call; there the step run() takes under  *)
(* its flag is the step it takes under the opposite flag, the call having  *)
(* returned 0 only with the exit state set, so that run(true) and          *)
(* run(false) make the same step() calls, stop after the same tick and     *)
(* return the same state.                                                  *)
(***************************************************************************)
RunContinues(f) == ~(~f /\ ret = 0) /\ exitState = None

HaltFired == \E k \in 1..Len(firedLog) : program[firedLog[k]].act = "exit"

Quiescent == ret = 0 \/ HaltFired

RunReturns == rpc # "none" /\ rpc' = "none"

Merged(a) ==
    IF a = None
    THEN CurrentState(M)
    ELSE [k \in Keys |->
            IF a[1][k] # Undef THEN a[1][k] ELSE CurrentState(M)[k]]

HistoryKept == UNCHANGED <<records, recM1, tick, nextState, maxHistory>>

ExitAction ==
    /\ pc = "loop"
    /\ idx <= Len(actions)
    /\ program[actions[idx].entry].act = "exit"
    /\ StepEval
    /\ fired' = fired + 1

C14_ExitFrame ==
    /\ [](\A a \in Args : Exit(Exit(M, a), a) = Exit(M, a))
    /\ [][/\ \A a \in Args :
               ExitCall(a) => exitState' = Some(Merged(a)) /\ HistoryKept
          /\ ExitAction =>
                /\ exitState' = Some(Merged(program[actions[idx].entry].arg))
                /\ HistoryKept
         ]_vars

\* exit(partial) by the caller over the exit state the third step() had set
C14_Witness ==
    /\ program = Settles
    /\ inputKeys = {}
    /\ steps = 3
    /\ calls = 1
    /\ Idle
    /\ tick = 4
    /\ Len(records) = 4
    /\ CurrentState(M) = CounterIs(2)
    /\ exitState = Some(Both(1, 0))

(***************************************************************************)
(* C15: the record a step() commits, when the tick was not aborted, is the *)
(* snapshot the tick started from, overlaid with the inputs collected for  *)
(* the tick, overlaid with the partial states the fired actions returned,  *)
(* in firing order, their input-bound keys stripped; of two fired actions  *)
(* writing one key the later one's value is the one committed.             *)
(***************************************************************************)
Stripped(p) == [k \in Keys |-> IF k \in inputKeys THEN Undef ELSE p[k]]

RECURSIVE Staged(_, _)
Staged(s, outs) ==
    IF outs = <<>> THEN s
    ELSE Staged(IF Head(outs) # None
                THEN Assign(s, Stripped(Head(outs)[1]))
                ELSE s,
                Tail(outs))

NoRewindFired == \A k \in 1..Len(firedLog) : ~Rewinds(program[firedLog[k]])

C15_Original ==
    [][(StepCommit /\ NoRewindFired) =>
          Last(records') = Staged(Assign(currentState, collected), outLog)]_vars

(***************************************************************************)
(* C16: in every reachable state each input-bound key of the current state *)
(* and of the exit state, when one is set, holds a value the binding's     *)
(* transform produced from the input source, never a value an action or a  *)
(* caller supplied.  (The partial states callers supply in the model carry *)
(* inp = 0, which the transform v => v + 1 never produces from SrcVals.)   *)
(* Stated of the states that have a record.                                *)
(***************************************************************************)
InputValues == {Transform(v) : v \in SrcVals}

C16_Original ==
    Len(records) >= 1 =>
        \A k \in inputKeys :
            /\ CurrentState(M)[k] \in InputValues
            /\ exitState # None => exitState[1][k] \in InputValues

(***************************************************************************)
(* C17: every condition and action of one step() is handed the snapshot    *)
(* that was current when the tick started, whatever the actions fired      *)
(* before it staged or did to the history without aborting the tick.       *)
(***************************************************************************)
Evaluating ==
    /\ pc = "loop"
    /\ idx <= Len(actions)
    /\ ~(tick # currentTick /\ exitState = None)
    /\ exitState = None

C17_Original == Evaluating => CurrentState(M) = currentState

(***************************************************************************)
(* C18: a step() called with the exit state set fires no action, returns 0 *)
(* and leaves the exit state, tick and the records as they were.  (A       *)
(* step() that reaches its commit with the exit state set and no action    *)
(* fired is one that was called with the exit state set.)                  *)
(***************************************************************************)
Finished == exitState # None /\ firedLog = <<>>

C18_Original ==
    [][(StepCommit /\ Finished) =>
          /\ ret' = 0
          /\ exitState' = exitState
          /\ tick' = tick
          /\ records' = records]_vars

(***************************************************************************)
(* C19: a tick in which a fired action rewinds the history (no exit state  *)
(* set) is not committed, the rewinding action being the last entry        *)
(* included: step() returns with tick and the records as the rewind left   *)
(* them.  Stated of the step() whose last entry evaluated is the rewinding *)
(* one, where step() reaches the end of its loop right after the rewind.   *)
(***************************************************************************)
RewoundLast ==
    /\ firedLog # <<>>
    /\ Last(evalLog) = Last(firedLog)
    /\ Rewinds(program[Last(firedLog)])
    /\ exitState = None

C19_Original ==
    [][(StepCommit /\ RewoundLast) =>
          /\ tick' = tick
          /\ records' = records]_vars

(***************************************************************************)
(* C20: in every reachable state tick >= 0 and the history holds at least  *)
(* one record.                                                             *)
(***************************************************************************)
C20_Original == tick >= 0 /\ Len(records) >= 1

=============================================================================
